---- MODULE Spec2Model ----
(***************************************************************************)
(* rich_reporter.Reporter: a facade over a logging.Logger obtained from    *)
(* the process-wide, name-keyed logger registry, a Rich console and a      *)
(* per-instance statistics dictionary that a logger filter updates.        *)
(***************************************************************************)
EXTENDS Integers, Sequences, FiniteSets

(***************************************************************************)
(* Bounds of the model.                                                    *)
(***************************************************************************)
MaxReporters == 2
MaxSubmits == 3
MaxThreads == 2

(***************************************************************************)
(* Levels.  The logging calls of Reporter carry the five standard level    *)
(* numbers; a record's levelname is the upper-case name of its number and  *)
(* the statistics dictionary is keyed by the lower-case name.              *)
(***************************************************************************)
StatKeys == <<"debug", "info", "warning", "error", "critical">>

KeySet == {StatKeys[i] : i \in 1..Len(StatKeys)}

LevelNo == [DEBUG |-> 10, INFO |-> 20, WARNING |-> 30, ERROR |-> 40, CRITICAL |-> 50]

LevelNames == DOMAIN LevelNo

Levels == {LevelNo[n] : n \in LevelNames}

\* Level numbers that are none of the five: below DEBUG, between INFO and
\* WARNING, above CRITICAL
OtherLevels == {5, 25, 60}

\* logging.getLevelName: the name of a level number, "Level <n>" for a
\* number no name is registered for
LevelName(no) ==
  CASE no \in Levels -> CHOOSE n \in LevelNames : LevelNo[n] = no
    [] no = 5 -> "Level 5"
    [] no = 25 -> "Level 25"
    [] no = 60 -> "Level 60"

\* str.lower() on the level names
Lower(s) ==
  CASE s = "DEBUG" -> "debug"
    [] s = "INFO" -> "info"
    [] s = "WARNING" -> "warning"
    [] s = "ERROR" -> "error"
    [] s = "CRITICAL" -> "critical"
    [] s = "Level 5" -> "level 5"
    [] s = "Level 25" -> "level 25"
    [] s = "Level 60" -> "level 60"
    [] OTHER -> s

\* str.upper() on the statistics keys
Upper(s) ==
  CASE s = "debug" -> "DEBUG"
    [] s = "info" -> "INFO"
    [] s = "warning" -> "WARNING"
    [] s = "error" -> "ERROR"
    [] s = "critical" -> "CRITICAL"
    [] OTHER -> s

\* exception() taken for a level of its own, above error
MethodLevel_ExceptionAbove ==
  [debug |-> LevelNo.DEBUG, info |-> LevelNo.INFO, warning |-> LevelNo.WARNING,
   error |-> LevelNo.ERROR, critical |-> LevelNo.CRITICAL, exception |-> LevelNo.CRITICAL]

\* The level each logging method of Reporter submits at: Logger.exception
\* is Logger.error with the active traceback attached.
MethodLevel ==
  [debug |-> LevelNo.DEBUG, info |-> LevelNo.INFO, warning |-> LevelNo.WARNING,
   error |-> LevelNo.ERROR, critical |-> LevelNo.CRITICAL, exception |-> LevelNo.ERROR]

Methods == DOMAIN MethodLevel

(***************************************************************************)
(* Names given to Reporters, and the dotted hierarchy of the registry.     *)
(***************************************************************************)
Names == {"a", "a.b", "b"}

\* The ancestors of a logger name, nearest first (the root logger, which
\* no Reporter of these names configures, has no handlers).
Ancestors(n) == IF n = "a.b" THEN <<"a">> ELSE <<>>

FilePaths == {"None", "", "run.log"}

\* Python truthiness of the file_path argument
Truthy(p) == p \notin {"None", ""}

VARIABLES
  reporters,   \* Reporter objects in construction order: name, _stats
  loggers,     \* logging's registry: name -> logger (level, handlers, filters)
  consoleLogs, \* per Console (one per Reporter object): log records rendered
  fileLines,   \* per path: lines appended by FileHandlers
  scope,       \* per Reporter: where its with-block stands
  rendered,    \* the summaries rendered since the last logging call (at most the last one)
  last,        \* the last call: operation, reporter, outcome, returned value, events in order
  threads,     \* per calling thread: where its logging call stands
  submitted,   \* history: per Reporter, logging calls made per level name
  nSubmits     \* history: number of logging calls made

vars == <<reporters, loggers, consoleLogs, fileLines, scope, rendered, last,
          threads, submitted, nSubmits>>

Threads == 1..MaxThreads

IdleThread == [pc |-> "idle", r |-> 0, levelno |-> 0, read |-> 0]

ZeroStats == [k \in KeySet |-> 0]

NoLogger == [level |-> 0, handlers |-> <<>>, filters |-> <<>>]

NoValue == [live |-> FALSE, val |-> <<>>]

\* args holds what the call was given, where a property needs it
NoCall ==
  [op |-> "none", r |-> 0, args |-> <<>>, outcome |-> "none", ret |-> NoValue,
   events |-> <<>>]

Ids == 1..Len(reporters)

Returned == {r \in Ids : reporters[r].returned}

(***************************************************************************)
(* Reporter.__init__                                                       *)
(***************************************************************************)
RichHandler(level, console) ==
  [kind |-> "rich", level |-> level, console |-> console, path |-> "None"]

FileHandler(level, path) ==
  [kind |-> "file", level |-> level, console |-> 0, path |-> path]

\* Logger.addFilter: appended unless already present
AddFilter(filters, f) ==
  IF \E i \in 1..Len(filters) : filters[i] = f THEN filters ELSE Append(filters, f)

\* A check for the absent path only: if file_path is None
ConstructRaises_NoneOnly(enable, path) == enable /\ path = "None"

\* The construction raises when file logging is requested without a path.
ConstructRaises(enable, path) == enable /\ ~Truthy(path)

\* An __init__ that attaches the file handler before the RichHandler
ConfiguredLogger_FileFirst(old, r, level, enable, path) ==
  LET cleared == [old EXCEPT !.level = level, !.handlers = <<>>]
      withFile == IF enable /\ Truthy(path)
                  THEN [cleared EXCEPT !.handlers = Append(@, FileHandler(level, path))]
                  ELSE cleared
      withRich == [withFile EXCEPT !.handlers = Append(@, RichHandler(level, r))]
  IN  IF ConstructRaises(enable, path)
      THEN withRich
      ELSE [withRich EXCEPT !.filters = AddFilter(@, r)]

\* The registry entry of the Reporter's name after __init__ of the Reporter
\* object r ran (to its end, or to the raise): logging.getLogger(name) is
\* the one logger of that name, whatever Reporter asked for it before.
ConfiguredLogger(old, r, level, enable, path) ==
  LET cleared == [old EXCEPT !.level = level, !.handlers = <<>>]
      withRich == [cleared EXCEPT !.handlers = Append(@, RichHandler(level, r))]
      withFile == IF enable
                  THEN [withRich EXCEPT !.handlers = Append(@, FileHandler(level, path))]
                  ELSE withRich
  IN  IF ConstructRaises(enable, path)
      THEN withRich
      ELSE [withFile EXCEPT !.filters = AddFilter(@, r)]

\* The Reporter object __init__ fills in; it is returned unless __init__ raised.
\* minLevel records the level argument the construction was given, stream
\* the file logging.FileHandler(file_path) opened for it, if any.
NewReporter(name, level, enable, path) ==
  [name |-> name, stats |-> ZeroStats, minLevel |-> level,
   returned |-> ~ConstructRaises(enable, path),
   stream |-> IF enable /\ Truthy(path) THEN "open" ELSE "none"]

Construct(name, level, enable, path) ==
  /\ Len(reporters) < MaxReporters
  /\ LET r == Len(reporters) + 1
     IN  /\ reporters' = Append(reporters, NewReporter(name, level, enable, path))
         /\ loggers' = [loggers EXCEPT
                          ![name] = ConfiguredLogger(@, r, level, enable, path)]
         /\ last' = [NoCall EXCEPT !.op = "construct", !.r = r,
                       !.args = [enable |-> enable, path |-> path],
                       !.outcome = IF ConstructRaises(enable, path)
                                   THEN "ValueError" ELSE "returned"]
  /\ consoleLogs' = Append(consoleLogs, 0)
  /\ scope' = Append(scope, "none")
  /\ submitted' = Append(submitted, [k \in LevelNames |-> 0])
  /\ UNCHANGED <<threads, fileLines, rendered, nSubmits>>

(***************************************************************************)
(* The logging calls: Logger.debug .. Logger.exception on self.logger.     *)
(***************************************************************************)
\* A filter that counts every record under one fixed key
CountLogEvent_OneKey(stats, levelname) ==
  [stats EXCEPT !["info"] = @ + 1]

\* A filter that counts a record of an unknown level as a debug record
CountLogEvent_Fallback(stats, levelname) ==
  LET key == Lower(levelname)
  IN  IF key \in DOMAIN stats
      THEN [stats EXCEPT ![key] = @ + 1]
      ELSE [stats EXCEPT !["debug"] = @ + 1]

\* Reporter._count_log_event applied to one statistics dictionary
CountLogEvent(stats, levelname) ==
  LET key == Lower(levelname)
  IN  IF key \in DOMAIN stats THEN [stats EXCEPT ![key] = @ + 1] ELSE stats

\* Logger.filter: every filter of the logger runs, in order; each is the
\* _count_log_event of the Reporter that added it, and each returns True.
RECURSIVE RunFilters(_, _, _)
RunFilters(reps, filters, levelname) ==
  IF filters = <<>> THEN reps
  ELSE LET f == Head(filters)
       IN  RunFilters([reps EXCEPT ![f].stats = CountLogEvent(@, levelname)],
                      Tail(filters), levelname)

\* A logger whose level was never set lets every record through
IsEnabledFor_Always(logger, levelno) == TRUE

\* Logger.isEnabledFor: every logger a Reporter holds had setLevel called
\* with a level of the five, so its effective level is its own.
IsEnabledFor(logger, levelno) == levelno >= logger.level

RECURSIVE ChainHandlers(_, _)
ChainHandlers(regs, chain) ==
  IF chain = <<>> THEN <<>>
  ELSE regs[Head(chain)].handlers \o ChainHandlers(regs, Tail(chain))

\* Logger.callHandlers: the handlers of the logger, then of each ancestor
\* (propagate is left True), that accept the record's level.
Deliveries(regs, name, levelno) ==
  SelectSeq(ChainHandlers(regs, <<name>> \o Ancestors(name)),
            LAMBDA h : levelno >= h.level)

RECURSIVE EmitConsole(_, _)
EmitConsole(out, hs) ==
  IF hs = <<>> THEN out
  ELSE LET h == Head(hs)
       IN  EmitConsole(IF h.kind = "rich" THEN [out EXCEPT ![h.console] = @ + 1] ELSE out,
                       Tail(hs))

RECURSIVE EmitFile(_, _)
EmitFile(files, hs) ==
  IF hs = <<>> THEN files
  ELSE LET h == Head(hs)
       IN  EmitFile(IF h.kind = "file" THEN [files EXCEPT ![h.path] = @ + 1] ELSE files,
                    Tail(hs))

CountEvents(filters) ==
  [i \in 1..Len(filters) |-> [what |-> "count", who |-> filters[i]]]

EmitEvents(hs) ==
  [i \in 1..Len(hs) |->
     IF hs[i].kind = "rich"
     THEN [what |-> "console", who |-> hs[i].console]
     ELSE [what |-> "file", who |-> 0]]

\* One logging call of Reporter r through `method`.
Log(r, method) ==
  /\ r \in Returned
  /\ nSubmits < MaxSubmits
  /\ LET levelno == MethodLevel[method]
         name == reporters[r].name
         logger == loggers[name]
         admitted == IsEnabledFor(logger, levelno)
         hs == Deliveries(loggers, name, levelno)
     IN  /\ reporters' = IF admitted
                         THEN RunFilters(reporters, logger.filters, LevelName(levelno))
                         ELSE reporters
         /\ consoleLogs' = IF admitted THEN EmitConsole(consoleLogs, hs) ELSE consoleLogs
         /\ fileLines' = IF admitted THEN EmitFile(fileLines, hs) ELSE fileLines
         /\ last' = [NoCall EXCEPT !.op = method, !.r = r, !.outcome = "returned",
                       !.events = IF admitted
                                  THEN CountEvents(logger.filters) \o EmitEvents(hs)
                                  ELSE <<>>]
         /\ submitted' = [submitted EXCEPT ![r][LevelName(levelno)] = @ + 1]
  /\ nSubmits' = nSubmits + 1
  /\ rendered' = <<>>
  /\ UNCHANGED <<threads, loggers, scope>>

\* A record of any level number submitted through the Reporter's public
\* logger attribute: reporter.logger.log(levelno, message).  Reporter has
\* no method of its own that takes a level.
LoggerLog(r, levelno) ==
  /\ r \in Returned
  /\ nSubmits < MaxSubmits
  /\ LET name == reporters[r].name
         logger == loggers[name]
         admitted == IsEnabledFor(logger, levelno)
         hs == Deliveries(loggers, name, levelno)
     IN  /\ reporters' = IF admitted
                         THEN RunFilters(reporters, logger.filters, LevelName(levelno))
                         ELSE reporters
         /\ consoleLogs' = IF admitted THEN EmitConsole(consoleLogs, hs) ELSE consoleLogs
         /\ fileLines' = IF admitted THEN EmitFile(fileLines, hs) ELSE fileLines
         /\ last' = [NoCall EXCEPT !.op = "log", !.r = r, !.args = levelno,
                       !.outcome = "returned",
                       !.events = IF admitted
                                  THEN CountEvents(logger.filters) \o EmitEvents(hs)
                                  ELSE <<>>]
  /\ nSubmits' = nSubmits + 1
  /\ rendered' = <<>>
  /\ UNCHANGED <<threads, loggers, scope, submitted>>

(***************************************************************************)
(* A logging call during which the output of some handlers fails: the      *)
(* console's print or the file stream's write raises an Exception.         *)
(***************************************************************************)
\* The handlers, by kind, whose output can fail
HandlerKinds == {"rich", "file"}

\* An emit that lets the failure out: the handlers after the failing one
\* are not called and the logging call raises
CallHandlers_Propagates(hs, broken) ==
  LET bad == {i \in 1..Len(hs) : hs[i].kind \in broken}
      first == IF bad = {} THEN Len(hs) ELSE CHOOSE i \in bad : \A j \in bad : i <= j
  IN  [called |-> SubSeq(hs, 1, first), raised |-> bad # {}]

\* Logger.callHandlers over the RichHandler and the FileHandler __init__
\* attached: both catch the Exception of their output inside emit and hand
\* the record to Handler.handleError, which writes to stderr and returns,
\* so every handler is called and the logging call returns.
CallHandlers(hs, broken) == [called |-> hs, raised |-> FALSE]

\* The handlers whose output took the record
Accepting(hs, broken) == SelectSeq(hs, LAMBDA h : h.kind \notin broken)

\* What each called handler did, in order
EmitOrError(hs, broken) ==
  [i \in 1..Len(hs) |->
     IF hs[i].kind \in broken
     THEN [what |-> "handleError", who |-> hs[i].kind]
     ELSE EmitEvents(<<hs[i]>>)[1]]

\* One logging call of Reporter r while the handlers of the kinds in
\* `broken` fail to write.
LogFailing(r, method, broken) ==
  /\ r \in Returned
  /\ nSubmits < MaxSubmits
  /\ broken # {}
  /\ LET levelno == MethodLevel[method]
         name == reporters[r].name
         logger == loggers[name]
         admitted == IsEnabledFor(logger, levelno)
         hs == Deliveries(loggers, name, levelno)
         call == CallHandlers(hs, broken)
         taken == Accepting(call.called, broken)
     IN  /\ reporters' = IF admitted
                         THEN RunFilters(reporters, logger.filters, LevelName(levelno))
                         ELSE reporters
         /\ consoleLogs' = IF admitted THEN EmitConsole(consoleLogs, taken) ELSE consoleLogs
         /\ fileLines' = IF admitted THEN EmitFile(fileLines, taken) ELSE fileLines
         /\ last' = [NoCall EXCEPT !.op = method, !.r = r,
                       !.outcome = IF admitted /\ call.raised THEN "raised" ELSE "returned",
                       !.events = IF admitted
                                  THEN CountEvents(logger.filters)
                                         \o EmitOrError(call.called, broken)
                                  ELSE <<>>]
         /\ submitted' = [submitted EXCEPT ![r][LevelName(levelno)] = @ + 1]
  /\ nSubmits' = nSubmits + 1
  /\ rendered' = <<>>
  /\ UNCHANGED <<threads, loggers, scope>>

(***************************************************************************)
(* Reporter.print, get_stats, report, __enter__, __exit__                  *)
(***************************************************************************)
\* What print() is given: plain text, or text with console markup
Contents == {"text", "[bold]text[/bold]"}

\* A print routed through the logger at INFO: counted, and dropped by a
\* Reporter above INFO
PrintCall_Logged(r, content) ==
  /\ r \in Returned
  /\ reporters' = IF IsEnabledFor(loggers[reporters[r].name], LevelNo.INFO)
                  THEN [reporters EXCEPT ![r].stats = CountLogEvent(@, "INFO")]
                  ELSE reporters
  /\ last' = [NoCall EXCEPT !.op = "print", !.r = r, !.outcome = "returned",
                !.events = IF IsEnabledFor(loggers[reporters[r].name], LevelNo.INFO)
                           THEN <<[what |-> "print", who |-> r, content |-> content]>>
                           ELSE <<>>]
  /\ UNCHANGED <<threads, loggers, consoleLogs, fileLines, scope, rendered, submitted, nSubmits>>

\* console.print(*args): the console is handed the content, nothing else
PrintCall(r, content) ==
  /\ r \in Returned
  /\ last' = [NoCall EXCEPT !.op = "print", !.r = r, !.outcome = "returned",
                !.events = <<[what |-> "print", who |-> r, content |-> content]>>]
  /\ UNCHANGED <<threads, reporters, loggers, consoleLogs, fileLines, scope, rendered,
                 submitted, nSubmits>>

\* return self._stats: the Reporter's own dictionary
GetStatsResult_Live(stats) == [live |-> TRUE, val |-> stats]

\* self._stats.copy(): a new dictionary with the same items
GetStatsResult(stats) == [live |-> FALSE, val |-> stats]

GetStats(r) ==
  /\ r \in Returned
  /\ last' = [NoCall EXCEPT !.op = "get_stats", !.r = r, !.outcome = "returned",
                !.ret = GetStatsResult(reporters[r].stats)]
  /\ UNCHANGED <<threads, reporters, loggers, consoleLogs, fileLines, scope, rendered,
                 submitted, nSubmits>>

\* The caller stores into the mapping the last call returned.  A mapping
\* that is the Reporter's own dictionary changes the Reporter with it.
MutateReturned(key) ==
  /\ last.op \in {"get_stats", "report"}
  /\ reporters' = IF last.ret.live
                  THEN [reporters EXCEPT ![last.r].stats[key] = 999]
                  ELSE reporters
  /\ last' = [last EXCEPT !.op = "mutate", !.args = <<>>, !.ret.val[key] = 999,
                !.events = <<>>]
  /\ UNCHANGED <<threads, loggers, consoleLogs, fileLines, scope, rendered, submitted, nSubmits>>

DefaultTitle == "Report Summary"

\* report() called without a title
Omitted == "omitted"

\* What report() is given for its title parameter
TitleArgs == {Omitted, "Run"}

\* def report(self, title: str = "Report Summary")
TitleOf(arg) == IF arg = Omitted THEN DefaultTitle ELSE arg

Titles == {TitleOf(arg) : arg \in TitleArgs}

\* Rows in the alphabetical order of the level names
ReportRows_Sorted(stats) ==
  LET keys == <<"critical", "debug", "error", "info", "warning">>
  IN  [i \in 1..Len(keys) |-> [level |-> Upper(keys[i]), count |-> stats[keys[i]]]]

\* The rows report() adds to the table: for level, count in
\* self._stats.items(), in the dictionary's order.
ReportRows(stats) ==
  [i \in 1..Len(StatKeys) |-> [level |-> Upper(StatKeys[i]), count |-> stats[StatKeys[i]]]]

\* The panel report() prints and the statistics it returns
ReportPanel(r, stats, title) ==
  [what |-> "panel", who |-> r, title |-> title, rows |-> ReportRows(stats)]

\* A report() that starts the statistics afresh once they are shown
ReportEffect_Resets(r, title, op, args, outcome, keeps) ==
  /\ last' = [NoCall EXCEPT !.op = op, !.r = r, !.args = args, !.outcome = outcome,
                !.ret = IF keeps THEN GetStatsResult(reporters[r].stats) ELSE NoValue,
                !.events = <<ReportPanel(r, reporters[r].stats, title)>>]
  /\ rendered' = <<[panel |-> ReportPanel(r, reporters[r].stats, title),
                    ret |-> GetStatsResult(reporters[r].stats).val,
                    again |-> rendered # <<>>]>>
  /\ reporters' = [reporters EXCEPT ![r].stats = ZeroStats]
  /\ UNCHANGED <<threads, loggers, consoleLogs, fileLines, submitted, nSubmits>>

\* report(): the panel goes to the console and a copy of the statistics
\* is returned; `keeps` says whether the caller receives what report()
\* returned (__exit__ drops it).  `rendered` remembers the panel and the
\* mapping, and whether another summary preceded it since the last logging call.
\* `args` is what the caller gave the operation.
ReportEffect(r, title, op, args, outcome, keeps) ==
  /\ last' = [NoCall EXCEPT !.op = op, !.r = r, !.args = args, !.outcome = outcome,
                !.ret = IF keeps THEN GetStatsResult(reporters[r].stats) ELSE NoValue,
                !.events = <<ReportPanel(r, reporters[r].stats, title)>>]
  /\ rendered' = <<[panel |-> ReportPanel(r, reporters[r].stats, title),
                    ret |-> GetStatsResult(reporters[r].stats).val,
                    again |-> rendered # <<>>]>>
  /\ UNCHANGED <<threads, reporters, loggers, consoleLogs, fileLines, submitted, nSubmits>>

Report(r, arg) ==
  /\ r \in Returned
  /\ ReportEffect(r, TitleOf(arg), "report", [title |-> arg], "returned", TRUE)
  /\ UNCHANGED scope

\* with reporter: ... -- __enter__ returns the Reporter
Enter(r) ==
  /\ r \in Returned
  /\ scope[r] # "body"
  /\ scope' = [scope EXCEPT ![r] = "body"]
  /\ last' = [NoCall EXCEPT !.op = "enter", !.r = r, !.outcome = "returned"]
  /\ UNCHANGED <<threads, reporters, loggers, consoleLogs, fileLines, rendered, submitted, nSubmits>>

\* An __exit__ that returns a true value: the with statement swallows
\* the exception of its body
ExitSuppresses_Always == TRUE

\* __exit__ returns None, so the with statement suppresses nothing
ExitSuppresses == FALSE

\* An __exit__ that reports only when the body raised nothing
Exit_OnlyWhenClean(r, raising) ==
  /\ r \in Returned
  /\ scope[r] = "body"
  /\ scope' = [scope EXCEPT ![r] = "left"]
  /\ IF raising
     THEN /\ last' = [NoCall EXCEPT !.op = "exit", !.r = r,
                        !.args = [raising |-> raising], !.outcome = "raised"]
          /\ UNCHANGED <<threads, reporters, loggers, consoleLogs, fileLines, rendered,
                         submitted, nSubmits>>
     ELSE ReportEffect(r, DefaultTitle, "exit", [raising |-> raising], "returned", FALSE)

\* The body of the with-block ends, normally or by raising: __exit__ runs.
Exit(r, raising) ==
  /\ r \in Returned
  /\ scope[r] = "body"
  /\ scope' = [scope EXCEPT ![r] = "left"]
  /\ ReportEffect(r, DefaultTitle, "exit", [raising |-> raising],
                  IF raising /\ ~ExitSuppresses THEN "raised" ELSE "returned", FALSE)

\* The caller drops its reference to the Reporter (del reporter, or the
\* name goes out of scope) and makes no further call on it.  Reporter
\* defines no __del__ and no close(): no code of the Reporter runs.
Discard(r) ==
  /\ r \in Returned
  /\ scope[r] \in {"none", "left"}
  /\ scope' = [scope EXCEPT ![r] = "discarded"]
  /\ last' = [NoCall EXCEPT !.op = "discard", !.r = r, !.outcome = "returned"]
  /\ UNCHANGED <<threads, reporters, loggers, consoleLogs, fileLines, rendered, submitted,
                 nSubmits>>

Init ==
  /\ reporters = <<>>
  /\ loggers = [n \in Names |-> NoLogger]
  /\ consoleLogs = <<>>
  /\ fileLines = [p \in {q \in FilePaths : Truthy(q)} |-> 0]
  /\ scope = <<>>
  /\ rendered = <<>>
  /\ last = NoCall
  /\ threads = [t \in Threads |-> IdleThread]
  /\ submitted = <<>>
  /\ nSubmits = 0

\* The minimum levels the Reporters that live side by side are given
ConstructLevels == {LevelNo.INFO, LevelNo.ERROR}

\* Reporters are constructed and used from one thread.
Next ==
  \/ \E name \in Names, level \in ConstructLevels, enable \in BOOLEAN,
         path \in FilePaths :
       Construct(name, level, enable, path)
  \/ \E r \in Ids, method \in Methods : Log(r, method)

Spec == Init /\ [][Next]_vars

\* Constructions only, one after another in one process
NextConstruct ==
  \E name \in Names, level \in ConstructLevels, enable \in BOOLEAN, path \in FilePaths :
    Construct(name, level, enable, path)

SpecConstruct == Init /\ [][NextConstruct]_vars

(***************************************************************************)
(* One Reporter, just constructed in a fresh process, and the calls made   *)
(* on it.                                                                  *)
(***************************************************************************)
\* The names the lone Reporter is given: a top-level and a dotted one
LoneNames == {"a", "a.b"}

InitOne ==
  \E name \in LoneNames, level \in Levels, enable \in BOOLEAN :
    /\ reporters = <<NewReporter(name, level, enable, "run.log")>>
    /\ loggers = [n \in Names |->
                    IF n = name
                    THEN ConfiguredLogger(NoLogger, 1, level, enable, "run.log")
                    ELSE NoLogger]
    /\ consoleLogs = <<0>>
    /\ fileLines = [p \in {q \in FilePaths : Truthy(q)} |-> 0]
    /\ scope = <<"none">>
    /\ rendered = <<>>
    /\ last = [NoCall EXCEPT !.op = "construct", !.r = 1,
                 !.args = [enable |-> enable, path |-> "run.log"],
                 !.outcome = "returned"]
    /\ threads = [t \in Threads |-> IdleThread]
    /\ submitted = <<[k \in LevelNames |-> 0]>>
    /\ nSubmits = 0

NextOne ==
  \/ \E method \in Methods : Log(1, method)
  \/ \E content \in Contents : PrintCall(1, content)
  \/ GetStats(1)
  \/ \E key \in KeySet : MutateReturned(key)
  \/ \E arg \in TitleArgs : Report(1, arg)
  \/ Enter(1)
  \/ \E raising \in BOOLEAN : Exit(1, raising)

SpecOne == InitOne /\ [][NextOne]_vars

\* One Reporter and the records that go through its logger, with handlers
\* that work and handlers that fail
NextPipeline ==
  \/ \E method \in Methods : Log(1, method)
  \/ \E method \in Methods, broken \in SUBSET HandlerKinds : LogFailing(1, method, broken)
  \/ \E levelno \in OtherLevels : LoggerLog(1, levelno)

SpecPipeline == InitOne /\ [][NextPipeline]_vars

\* One Reporter from its construction to the moment the caller lets go of it
Alive(r) == scope[r] # "discarded"

NextLifetime ==
  \/ \E method \in Methods : Alive(1) /\ Log(1, method)
  \/ Alive(1) /\ Enter(1)
  \/ \E raising \in BOOLEAN : Exit(1, raising)
  \/ Discard(1)

SpecLifetime == InitOne /\ [][NextLifetime]_vars

(***************************************************************************)
(* One Reporter used from several threads, each making one logging call.   *)
(* Logger.handle takes no lock around the filters, so the statement        *)
(* self._stats[level_name] += 1 of one call, a load of the item followed   *)
(* by a store of the sum, runs interleaved with that of another call; a    *)
(* handler emits under its own lock.                                       *)
(***************************************************************************)
\* the load of self._stats[level_name]
CountRead(stats, levelname) == stats[Lower(levelname)]

\* the store of the loaded value plus one
CountWrite(stats, levelname, loaded) ==
  [stats EXCEPT ![Lower(levelname)] = loaded + 1]

\* The call starts: isEnabledFor decides whether it goes on to the filter.
ThreadCall(t, r, method) ==
  /\ threads[t].pc = "idle"
  /\ r \in Returned
  /\ threads' = [threads EXCEPT ![t] =
                   [pc |-> IF IsEnabledFor(loggers[reporters[r].name], MethodLevel[method])
                           THEN "filter" ELSE "done",
                    r |-> r, levelno |-> MethodLevel[method], read |-> 0]]
  /\ submitted' = [submitted EXCEPT ![r][LevelName(MethodLevel[method])] = @ + 1]
  /\ nSubmits' = nSubmits + 1
  /\ UNCHANGED <<reporters, loggers, consoleLogs, fileLines, scope, rendered, last>>

ThreadRead(t) ==
  /\ threads[t].pc = "filter"
  /\ threads' = [threads EXCEPT
                   ![t].read = CountRead(reporters[threads[t].r].stats,
                                         LevelName(threads[t].levelno)),
                   ![t].pc = "store"]
  /\ UNCHANGED <<reporters, loggers, consoleLogs, fileLines, scope, rendered, last,
                 submitted, nSubmits>>

ThreadWrite(t) ==
  /\ threads[t].pc = "store"
  /\ reporters' = [reporters EXCEPT
                     ![threads[t].r].stats =
                        CountWrite(@, LevelName(threads[t].levelno), threads[t].read)]
  /\ threads' = [threads EXCEPT ![t].pc = "handlers"]
  /\ UNCHANGED <<loggers, consoleLogs, fileLines, scope, rendered, last,
                 submitted, nSubmits>>

ThreadEmit(t) ==
  /\ threads[t].pc = "handlers"
  /\ LET hs == Deliveries(loggers, reporters[threads[t].r].name, threads[t].levelno)
     IN  /\ consoleLogs' = EmitConsole(consoleLogs, hs)
         /\ fileLines' = EmitFile(fileLines, hs)
  /\ threads' = [threads EXCEPT ![t].pc = "done"]
  /\ UNCHANGED <<reporters, loggers, scope, rendered, last, submitted, nSubmits>>

NextThreads ==
  \/ \E t \in Threads, method \in Methods : ThreadCall(t, 1, method)
  \/ \E t \in Threads : ThreadRead(t)
  \/ \E t \in Threads : ThreadWrite(t)
  \/ \E t \in Threads : ThreadEmit(t)

SpecThreads == InitOne /\ [][NextThreads]_vars

(***************************************************************************)
(* Properties                                                              *)
(***************************************************************************)
\* The level of the last call, when it was a logging call
LastLevel == MethodLevel[last.op]

\* The step is a logging call
IsLogStep == nSubmits' = nSubmits + 1

Admits(r, levelname) == LevelNo[levelname] >= reporters[r].minLevel

ExpectedCount(r, key) ==
  IF Admits(r, Upper(key)) THEN submitted[r][Upper(key)] ELSE 0

RECURSIVE SumSeq(_)
SumSeq(q) == IF q = <<>> THEN 0 ELSE Head(q) + SumSeq(Tail(q))

SumStats(stats) == SumSeq([i \in 1..Len(StatKeys) |-> stats[StatKeys[i]]])

AdmittedSubmissions(r) ==
  SumSeq([i \in 1..Len(StatKeys) |-> ExpectedCount(r, StatKeys[i])])

\* C1: after any sequence of logging calls on a Reporter, the count of every
\* level equals the number of calls made at that level when the level is at
\* least the Reporter's minimum level, and is zero otherwise; the counts
\* add up to the number of admitted calls.
C1_CountsMatchSubmissions ==
  \A r \in Returned :
    /\ DOMAIN reporters[r].stats = KeySet
    /\ \A key \in KeySet : reporters[r].stats[key] = ExpectedCount(r, key)
    /\ SumStats(reporters[r].stats) = AdmittedSubmissions(r)

\* Three calls were made on a Reporter at WARNING: a debug call that was
\* not counted, a warning and an error call that were.
C1_Witness ==
  /\ Len(reporters) = 1
  /\ reporters[1].minLevel = LevelNo.WARNING
  /\ submitted[1]["DEBUG"] = 1
  /\ reporters[1].stats["debug"] = 0
  /\ reporters[1].stats["warning"] = 1
  /\ reporters[1].stats["error"] = 1

\* C2: a logging call below the Reporter's minimum level changes no count
\* and reaches no sink, console or file; a call at exactly the minimum
\* level is counted and reaches the console.
C2_BelowMinLevelNoOp ==
  [][IsLogStep =>
       LET r == last'.r
           levelno == MethodLevel[last'.op]
           key == Lower(LevelName(levelno))
       IN  /\ levelno < reporters[r].minLevel =>
                /\ reporters' = reporters
                /\ consoleLogs' = consoleLogs
                /\ fileLines' = fileLines
                /\ last'.events = <<>>
           /\ levelno = reporters[r].minLevel =>
                /\ reporters'[r].stats[key] = reporters[r].stats[key] + 1
                /\ consoleLogs'[r] = consoleLogs[r] + 1]_vars

\* A call below the minimum level was just made on a Reporter that writes
\* to a file as well, after a call at exactly the minimum level.
C2_Witness ==
  /\ last.op \in Methods
  /\ LastLevel < reporters[last.r].minLevel
  /\ Len(loggers[reporters[last.r].name].handlers) = 2
  /\ submitted[last.r][LevelName(reporters[last.r].minLevel)] = 1

Panels(events) == SelectSeq(events, LAMBDA e : e.what = "panel")

\* C6: leaving the with-block of a Reporter, normally or through a raised
\* exception, renders exactly one summary, titled "Report Summary"; entering
\* the block renders none, and inside the block a summary is rendered only
\* by a report() call of the body itself.
C6_ScopeExitReportsOnce ==
  /\ last.op = "exit" =>
       /\ Len(Panels(last.events)) = 1
       /\ Panels(last.events)[1].title = "Report Summary"
       /\ Panels(last.events)[1].who = last.r
       /\ scope[last.r] = "left"
  /\ last.op = "enter" =>
       /\ Panels(last.events) = <<>>
       /\ scope[last.r] = "body"
  /\ last.op \notin {"exit", "report"} => Panels(last.events) = <<>>

\* The with-block was just left through a raised exception, after the body
\* logged an admitted record.
C6_Witness ==
  /\ last.op = "exit"
  /\ last.outcome = "raised"
  /\ SumStats(reporters[last.r].stats) >= 1

\* C7: get_stats() and report() return a mapping equal to the counts and
\* separate from them: storing into the returned mapping changes no
\* Reporter, so a later get_stats() returns the counts as they were.
C7_ReturnedMappingIsCopy ==
  [][/\ last'.op \in {"get_stats", "report"} =>
          /\ last'.ret.val = reporters'[last'.r].stats
          /\ reporters' = reporters
     /\ (last'.op = "mutate" /\ last.op # "mutate") =>
          /\ reporters' = reporters
          /\ GetStatsResult(reporters'[last.r].stats).val = reporters[last.r].stats
          /\ last'.ret.val # reporters'[last.r].stats]_vars

\* The caller stored 999 under "info" in a mapping report() or get_stats()
\* returned when the info count was 1, and the count is still 1.
C7_Witness ==
  /\ last.op = "mutate"
  /\ last.ret.val["info"] = 999
  /\ reporters[last.r].stats["info"] = 1

\* C8: report() changes no count, and a report() that follows another with
\* no logging call between them returns the same mapping and gives the
\* console the same rows.
C8_ReportReadOnly ==
  [][last'.op = "report" =>
       /\ reporters' = reporters
       /\ rendered # <<>> =>
            /\ rendered'[1].again
            /\ rendered'[1].ret = rendered[1].ret
            /\ rendered'[1].panel.rows = rendered[1].panel.rows
            /\ last'.ret.val = rendered[1].ret]_vars

\* report() was just called a second time with no logging call since the
\* first, on a Reporter that has counted a record.
C8_Witness ==
  /\ last.op = "report"
  /\ rendered # <<>>
  /\ rendered[1].again
  /\ SumStats(reporters[last.r].stats) >= 1

\* C9: print() hands its content, whatever it is, to the Reporter's console
\* whatever the minimum level is, and changes no count of any Reporter.
C9_PrintBypassesPipeline ==
  [][last'.op = "print" =>
       /\ reporters' = reporters
       /\ \E content \in Contents :
            last'.events = <<[what |-> "print", who |-> last'.r, content |-> content]>>
       /\ consoleLogs' = consoleLogs
       /\ fileLines' = fileLines]_vars

\* print() was just called on a Reporter whose minimum level is CRITICAL
\* and that has counted a record.
C9_Witness ==
  /\ last.op = "print"
  /\ last.events[1].content = "[bold]text[/bold]"
  /\ reporters[last.r].minLevel = LevelNo.CRITICAL
  /\ reporters[last.r].stats["critical"] = 1

\* C10: an exception() call is counted as an ERROR record: when ERROR is at
\* least the minimum level the error count rises by 1 and every other count
\* stays; otherwise no count changes; the keys stay the five level names.
C10_ExceptionCountsAsError ==
  [][(IsLogStep /\ last'.op = "exception") =>
       LET r == last'.r
           before == reporters[r].stats
           after == reporters'[r].stats
       IN  /\ DOMAIN after = KeySet
           /\ LevelNo.ERROR >= reporters[r].minLevel =>
                after = [before EXCEPT !["error"] = @ + 1]
           /\ LevelNo.ERROR < reporters[r].minLevel => after = before]_vars

\* exception() was just called and counted under error on a Reporter whose
\* minimum level is ERROR.
C10_Witness ==
  /\ last.op = "exception"
  /\ reporters[last.r].minLevel = LevelNo.ERROR
  /\ reporters[last.r].stats["error"] = 1
  /\ submitted[last.r]["ERROR"] = 1

\* C3 (as claimed): a logging call on one Reporter leaves the counts of every
\* other Reporter as they were, whatever the names of the two.
C3_OtherReporterUntouched ==
  [][IsLogStep =>
       \A q \in Returned \ {last'.r} : reporters'[q].stats = reporters[q].stats]_vars

\* The step constructs a Reporter and returns it
IsConstructStep ==
  /\ Len(reporters') = Len(reporters) + 1
  /\ last'.outcome = "returned"

\* C4 (as claimed): constructing another Reporter, of the same name or not,
\* leaves the logger of every existing Reporter with the handlers and the
\* level it had, so the existing Reporter admits from its own minimum level
\* and delivers to its own console.
C4_ConstructionLeavesOthers ==
  [][IsConstructStep =>
       \A r \in Returned :
         /\ loggers'[reporters[r].name].handlers = loggers[reporters[r].name].handlers
         /\ loggers'[reporters[r].name].level = loggers[reporters[r].name].level]_vars

AllCallsDone == \A t \in Threads : threads[t].pc = "done"

\* C5 (as claimed): once every concurrent logging call on a Reporter has
\* completed, the count of every level equals the number of admitted calls
\* made at that level.
C5_NoLostUpdate ==
  AllCallsDone =>
    \A r \in Returned, key \in KeySet : reporters[r].stats[key] = ExpectedCount(r, key)

\* C11: a construction with file logging enabled and no path -- absent or
\* empty -- raises ValueError and hands the caller no Reporter.
C11_NoPathRaises ==
  (last.op = "construct" /\ last.args.enable /\ last.args.path \in {"None", ""})
    => /\ last.outcome = "ValueError"
       /\ last.r \notin Returned

C11_Witness ==
  /\ last.op = "construct"
  /\ last.args.enable
  /\ last.args.path = ""
  /\ last.outcome = "ValueError"
  /\ \E r \in Returned : r < last.r

\* The kinds of the handlers that failed during the last call
FailedKinds(events) ==
  {events[i].who : i \in {j \in 1..Len(events) : events[j].what = "handleError"}}

C13_OutsideLevelRejected ==
  (last.op = "log" /\ last.args \in OtherLevels)
    => /\ last.outcome # "returned"
       /\ last.events = <<>>

\* C13 (amended): a record at a level outside the five, submitted through
\* the Reporter's logger, is not rejected: the call returns, no count
\* changes, and the record goes to the handlers exactly when its number is
\* at least the Reporter's minimum level.
C13_OutsideLevelUncounted ==
  [][(IsLogStep /\ last'.op = "log" /\ last'.args \in OtherLevels) =>
       LET r == last'.r
           hs == loggers[reporters[r].name].handlers
           admitted == last'.args >= reporters[r].minLevel
       IN  /\ last'.outcome = "returned"
           /\ reporters'[r].stats = reporters[r].stats
           /\ consoleLogs'[r] = consoleLogs[r] + (IF admitted THEN 1 ELSE 0)
           /\ \A i \in 1..Len(hs) :
                hs[i].kind = "file" =>
                  fileLines'[hs[i].path] = fileLines[hs[i].path] + (IF admitted THEN 1 ELSE 0)]_vars

\* A record at level 25 reached the console of an INFO Reporter and no
\* count moved.
C13_Witness ==
  /\ last.op = "log"
  /\ last.args = 25
  /\ last.outcome = "returned"
  /\ \E i \in 1..Len(last.events) : last.events[i].what = "console"
  /\ consoleLogs[1] = SumStats(reporters[1].stats) + 1

\* The level names in the order of the enumeration
LevelOrder == <<"DEBUG", "INFO", "WARNING", "ERROR", "CRITICAL">>

\* C14: report(title) prints one panel that carries the given title -- or
\* "Report Summary" when none is given -- and exactly five rows, DEBUG, INFO,
\* WARNING, ERROR, CRITICAL in that order, each with the Reporter's current
\* count of that level; the mapping it returns holds the same five counts.
C14_SummaryRowsAndTitle ==
  last.op = "report" =>
    /\ Len(last.events) = 1
    /\ LET panel == last.events[1]
       IN  /\ panel.what = "panel"
           /\ panel.title = (IF last.args.title = Omitted
                              THEN "Report Summary" ELSE last.args.title)
           /\ Len(panel.rows) = 5
           /\ \A i \in 1..5 :
                /\ panel.rows[i].level = LevelOrder[i]
                /\ panel.rows[i].count = reporters[last.r].stats[StatKeys[i]]
                /\ last.ret.val[StatKeys[i]] = panel.rows[i].count
           /\ DOMAIN last.ret.val = KeySet

\* A summary without a title after records were counted at two levels,
\* with different counts
C14_Witness ==
  /\ last.op = "report"
  /\ last.args.title = Omitted
  /\ last.events[1].rows[2].count = 2
  /\ last.events[1].rows[5].count = 1

\* C15 (as claimed): once a Reporter is discarded, the file it opened for
\* its file handler is closed.
C15_SinksReleased ==
  \A r \in Returned : scope[r] = "discarded" => reporters[r].stream # "open"

\* C16: an admitted record is counted first and then handed, once each, to
\* the RichHandler and after it to the file handler when one is configured:
\* the count is in place before the first handler has the record.
C16_CountThenForwardInOrder ==
  [][(IsLogStep /\ MethodLevel[last'.op] >= reporters[last'.r].minLevel) =>
       LET r == last'.r
           toFile == reporters[r].stream = "open"
       IN  /\ last'.events =
                <<[what |-> "count", who |-> r], [what |-> "console", who |-> r]>>
                  \o (IF toFile THEN <<[what |-> "file", who |-> 0]>> ELSE <<>>)
           /\ consoleLogs'[r] = consoleLogs[r] + 1
           /\ fileLines'["run.log"] = fileLines["run.log"] + (IF toFile THEN 1 ELSE 0)]_vars

\* A record that went to the console and then to the file
C16_Witness ==
  /\ last.op \in Methods
  /\ Len(last.events) = 3
  /\ last.events[1].what = "count"
  /\ last.events[2].what = "console"
  /\ last.events[3].what = "file"
  /\ fileLines["run.log"] = 2

\* The step is a construction that raised
IsFailedConstructStep ==
  /\ Len(reporters') = Len(reporters) + 1
  /\ last'.outcome = "ValueError"

\* C17 (as claimed): a construction that raises for the missing path leaves
\* every existing Reporter -- one of the same name included -- with the
\* handlers, the level and the counts it had.
C17_FailedConstructionChangesNothing ==
  [][IsFailedConstructStep =>
       \A r \in Returned :
         /\ loggers'[reporters[r].name] = loggers[reporters[r].name]
         /\ reporters'[r].stats = reporters[r].stats]_vars

\* C18 (as claimed): for every Reporter, whatever names the Reporters were
\* given, the number of log records its own console received equals the sum
\* of its counts.
C18_ConsoleMatchesCounts ==
  \A r \in Returned : consoleLogs[r] = SumStats(reporters[r].stats)

\* C19: when the body of the with-block raises, __exit__ renders the
\* summary and the exception goes on to the caller of the with-block.
C19_ExitNeverSuppresses ==
  (last.op = "exit" /\ last.args.raising) =>
    /\ last.outcome = "raised"
    /\ Len(Panels(last.events)) = 1
    /\ last.events[1] = ReportPanel(last.r, reporters[last.r].stats, "Report Summary")
    /\ scope[last.r] = "left"

\* The body logged an error and raised
C19_Witness ==
  /\ last.op = "exit"
  /\ last.args.raising
  /\ last.outcome = "raised"
  /\ last.events[1].rows[4].count = 1

====
